---- MODULE Spec2Model ----
(***************************************************************************)
(* Model of the OpenStack (Swift) storage backend of Upspin,               *)
(* cloud/storage/openstack/openstack.go: the adapter's construction (New), *)
(* its operations Put, Download, Delete, LinkBase, List/list, and the      *)
(* caller-driven paging loop of openstack_test.go (getAllRefs).            *)
(*                                                                         *)
(* The remote object store is the environment.  It is modelled as one      *)
(* container: a map from object names to byte sequences, a read-ACL list,  *)
(* and a per-request fault the service or the transport may answer with.   *)
(* Object names are the integers 1..MaxRef, ordered as Swift orders names. *)
(* A page URL (the continuation token) is the pair <<limit, marker>> of    *)
(* its query parameters; the empty token "" is the empty sequence.         *)
(***************************************************************************)
EXTENDS Integers, Sequences, FiniteSets, TLC

\* ---------------------------------------------------------------- bounds
\* Object names are 1..MaxRef.
MaxRef == 3

\* list is called with perPage in 0..MaxPerPage (0: no limit asked for).
MaxPerPage == 3

\* The read ACL has at most MaxACL entries.
MaxACL == 2

\* The page size the service applies to a listing request without a limit
\* (10000 in a stock Swift), scaled down so that List pages too.
ServerDefaultLimit == 2

\* ------------------------------------------------------------- constants
storageName == "OpenStack"

openstackRegion == "openstackRegion"

openstackContainer == "openstackContainer"

openstackAuthURL == "openstackAuthURL"

openstackTenantName == "privateOpenstackTenantName"

openstackUsername == "privateOpenstackUsername"

openstackPassword == "privateOpenstackPassword"

\* Mutant: the password is left out of the required options.
requiredOpts_noPassword ==
  << openstackRegion, openstackContainer, openstackAuthURL,
     openstackTenantName, openstackUsername >>

requiredOpts ==
  << openstackRegion, openstackContainer, openstackAuthURL,
     openstackTenantName, openstackUsername, openstackPassword >>

containerPublicACL == ".r:*"

\* ------------------------------------------------------------ input sets
Refs == 1..MaxRef

Blobs == { <<>>, <<9, 7>> }

Faults == { "none", "500", "timeout" }

OptValues == { "", "v" }

ACLEntries == { ".r:*", ".r:*.example.com", ".rlistings" }

PerPages == 0..MaxPerPage

\* The page URLs a list call can be handed: the empty token, or a URL with
\* a limit (0: none) and the marker of a continuation page.
Tokens == { <<>> } \cup { <<l, m>> : l \in PerPages, m \in Refs }

MaxCalls == MaxRef + 2

\* Go's nil error, nil slice and empty token.
NoErr == "nil"

NilBytes == <<>>

EmptyToken == <<>>

NilStorage == [client |-> "nil", container |-> ""]

VARIABLES
  adapter,   \* the openstackStorage value: client handle and container name
  store,     \* remote container: object name -> contents (domain = objects held)
  acl,       \* remote container: X-Container-Read entries
  lastPut,   \* history: name -> contents of the last successful Put, while not deleted since
  hist,      \* history: per name, its last successful change: "never" (none),
             \* "put" (created), "overwritten" (a Put replaced another blob), "deleted"
  last       \* outcome of the most recent call

vars == << adapter, store, acl, lastPut, hist, last >>

\* ----------------------------------------------------------------- helpers
Min(S) == CHOOSE x \in S : \A y \in S : x <= y

Range(f) == { f[i] : i \in DOMAIN f }

SeqsUpTo(S, n) == UNION { [1..k -> S] : k \in 0..n }

Ceil(n, p) == (n + p - 1) \div p

\* The outcome record of a call; every call fills the fields it has.
NoResult ==
  [ op |-> "none", ref |-> 0, url |-> EmptyToken, perPage |-> 0, maxCalls |-> 0,
    resp |-> "none", err |-> NoErr, contents |-> NilBytes, refs |-> <<>>,
    token |-> EmptyToken, fetches |-> 0, calls |-> 0, callCount |-> 0,
    link |-> <<>>, opts |-> <<>>, authOK |-> FALSE, clientOK |-> FALSE,
    authCalls |-> 0, msg |-> "" ]

\* ------------------------------------------------ the remote service (Swift)
\* GET of an object: the fault if the request fails, 404 if the object is
\* absent, the contents otherwise.
SwiftGet(st, ref, fault) ==
  IF fault # "none" THEN [status |-> fault, body |-> NilBytes]
  ELSE IF ref \in DOMAIN st THEN [status |-> "200", body |-> st[ref]]
  ELSE [status |-> "404", body |-> NilBytes]

\* PUT of an object creates or overwrites it.
SwiftPut(st, ref, body, fault) ==
  IF fault # "none" THEN [status |-> fault, store |-> st]
  ELSE [ status |-> "201",
         store |-> [r \in DOMAIN st \cup {ref} |-> IF r = ref THEN body ELSE st[r]] ]

\* DELETE of an object removes it; 404 if there is none.
SwiftDelete(st, ref, fault) ==
  IF fault # "none" THEN [status |-> fault, store |-> st]
  ELSE IF ref \in DOMAIN st
    THEN [status |-> "204", store |-> [r \in DOMAIN st \ {ref} |-> st[r]]]
    ELSE [status |-> "404", store |-> st]

\* ------------------------------------------------------------- operations
\* Mutant: every failure, also 404, is reported with kind IO.
Download_allIO(s, st, ref, fault) ==
  LET r == SwiftGet(st, ref, fault) IN
  IF r.status # "200"
    THEN [s |-> s, contents |-> NilBytes, err |-> "IO", resp |-> r.status]
    ELSE [s |-> s, contents |-> r.body, err |-> NoErr, resp |-> r.status]

\* Mutant: a failed Download drops the adapter's client handle.
Download_dropsClient(s, st, ref, fault) ==
  LET r == SwiftGet(st, ref, fault) IN
  IF r.status # "200"
    THEN [s |-> [s EXCEPT !.client = "nil"], contents |-> NilBytes,
          err |-> IF r.status = "404" THEN "NotExist" ELSE "IO", resp |-> r.status]
    ELSE [s |-> s, contents |-> r.body, err |-> NoErr, resp |-> r.status]

Download(s, st, ref, fault) ==
  LET r == SwiftGet(st, ref, fault) IN
  IF r.status # "200"
    THEN IF r.status = "404"
           THEN [s |-> s, contents |-> NilBytes, err |-> "NotExist", resp |-> r.status]
           ELSE [s |-> s, contents |-> NilBytes, err |-> "IO", resp |-> r.status]
    ELSE [s |-> s, contents |-> r.body, err |-> NoErr, resp |-> r.status]

\* Mutant: the upload's reader is already drained, an empty object is stored.
Put_emptyReader(s, st, ref, contents, fault) ==
  LET r == SwiftPut(st, ref, <<>>, fault) IN
  IF r.status # "201"
    THEN [s |-> s, store |-> r.store, err |-> "IO", resp |-> r.status]
    ELSE [s |-> s, store |-> r.store, err |-> NoErr, resp |-> r.status]

Put(s, st, ref, contents, fault) ==
  LET r == SwiftPut(st, ref, contents, fault) IN
  IF r.status # "201"
    THEN [s |-> s, store |-> r.store, err |-> "IO", resp |-> r.status]
    ELSE [s |-> s, store |-> r.store, err |-> NoErr, resp |-> r.status]

\* Mutant: the result's Err is not looked at, Delete always reports success.
Delete_ignoresErr(s, st, ref, fault) ==
  LET r == SwiftDelete(st, ref, fault) IN
  [s |-> s, store |-> r.store, err |-> NoErr, resp |-> r.status]

Delete(s, st, ref, fault) ==
  LET r == SwiftDelete(st, ref, fault) IN
  IF r.status # "204"
    THEN [s |-> s, store |-> r.store, err |-> "IO", resp |-> r.status]
    ELSE [s |-> s, store |-> r.store, err |-> NoErr, resp |-> r.status]

\* A container listing request for the page URL <<limit, marker>>: the
\* objects whose names follow the marker, in name order, at most `limit` of
\* them (the server's default when the URL has no limit).
RECURSIVE SwiftPage(_, _, _)
SwiftPage(st, limit, marker) ==
  LET after == { r \in DOMAIN st : r > marker } IN
  IF limit = 0 \/ after = {} THEN <<>>
  ELSE LET m == Min(after) IN
       << [Name |-> m, Bytes |-> Len(st[m])] >> \o SwiftPage(st, limit - 1, m)

SwiftList(st, url, fault) ==
  IF fault # "none" THEN [status |-> fault, objs |-> <<>>]
  ELSE [ status |-> "200",
         objs |-> SwiftPage(st, IF url[1] = 0 THEN ServerDefaultLimit ELSE url[1], url[2]) ]

\* MarkerPageBase.NextPageURL: the page's own URL with marker set to the
\* name of the page's last object.
NextPageURL(url, objs) == << url[1], objs[Len(objs)].Name >>

\* The URL the pager starts from: the container's listing URL with the
\* limit for the first page, the token itself for a continuation page.
\* Mutant: the token is ignored, every call lists from the first page.
pager_ignoresToken(url, perPage) == << perPage, 0 >>

pager(url, perPage) ==
  IF url = EmptyToken THEN << perPage, 0 >> ELSE url

\* Mutant: the handler asks for every following page, as AllPages would.
handlerContinue_true == TRUE

\* What the page handler of list answers to "fetch another page?".
handlerContinue == FALSE

\* Mutant: the loop over the page's objects starts one object late.
handler_skipsFirst(acc, url, objs) ==
  [ acc EXCEPT
      !.refs = acc.refs \o [i \in 1..(Len(objs) - 1) |->
                              [Ref |-> objs[i + 1].Name, Size |-> objs[i + 1].Bytes]],
      !.nextToken = NextPageURL(url, objs) ]

\* The page handler of list: appends the page's objects to refs, takes the
\* next page's URL as the token.
handler(acc, url, objs) ==
  [ acc EXCEPT
      !.refs = acc.refs \o [i \in 1..Len(objs) |-> [Ref |-> objs[i].Name, Size |-> objs[i].Bytes]],
      !.nextToken = NextPageURL(url, objs) ]

\* Pager.EachPage: fetch a page, stop on a failure or an empty page, hand
\* the page to the handler, go on with the next page while the handler says so.
RECURSIVE EachPage(_, _, _, _)
EachPage(st, url, fault, acc) ==
  LET r == SwiftList(st, url, fault)
      fetched == [acc EXCEPT !.fetches = acc.fetches + 1] IN
  IF r.status # "200" THEN [fetched EXCEPT !.err = r.status]
  ELSE IF r.objs = <<>> THEN fetched
  ELSE LET a == handler(fetched, url, r.objs) IN
       IF handlerContinue THEN EachPage(st, NextPageURL(url, r.objs), "none", a) ELSE a

\* Mutant: the token starts as the URL of the page asked for.
list_tokenDefaultsToURL(s, st, url, perPage, fault) ==
  LET r == EachPage(st, pager(url, perPage), fault,
                    [refs |-> <<>>, nextToken |-> pager(url, perPage), err |-> NoErr,
                     fetches |-> 0]) IN
  [ s |-> s, refs |-> r.refs, nextToken |-> r.nextToken,
    err |-> IF r.err # NoErr THEN "IO" ELSE NoErr, fetches |-> r.fetches ]

list(s, st, url, perPage, fault) ==
  LET r == EachPage(st, pager(url, perPage), fault,
                    [refs |-> <<>>, nextToken |-> EmptyToken, err |-> NoErr, fetches |-> 0]) IN
  [ s |-> s, refs |-> r.refs, nextToken |-> r.nextToken,
    err |-> IF r.err # NoErr THEN "IO" ELSE NoErr, fetches |-> r.fetches ]

List(s, st, token, fault) == list(s, st, token, 0, fault)

\* getAllRefs of the test: calls list from the empty token, handing each
\* returned token to the next call, until a call fails, a call returns the
\* empty token, or callCount reaches maxCalls.  faultAt is the call the
\* service fails at (0: none).  calls and fetches count the list calls made
\* and the page requests they issued.
RECURSIVE getAllRefsLoop(_, _, _, _, _, _)
getAllRefsLoop(s, st, perPage, maxCalls, faultAt, acc) ==
  IF ~(acc.callCount < maxCalls) THEN acc
  ELSE
    LET r == list(s, st, acc.token, perPage,
                  IF acc.calls + 1 = faultAt THEN "500" ELSE "none")
        called == [acc EXCEPT !.s = r.s, !.token = r.nextToken, !.err = r.err,
                              !.calls = acc.calls + 1,
                              !.fetches = acc.fetches + r.fetches] IN
    IF r.err # NoErr THEN called
    ELSE LET got == [called EXCEPT !.allRefs = acc.allRefs \o r.refs] IN
         IF r.nextToken = EmptyToken THEN got
         ELSE getAllRefsLoop(s, st, perPage, maxCalls, faultAt,
                             [got EXCEPT !.callCount = acc.callCount + 1])

getAllRefs(s, st, perPage, maxCalls, faultAt) ==
  getAllRefsLoop(s, st, perPage, maxCalls, faultAt,
                 [ s |-> s, allRefs |-> <<>>, callCount |-> 0, token |-> EmptyToken,
                   err |-> NoErr, calls |-> 0, fetches |-> 0 ])

\* Mutant: an ACL entry that starts with the sentinel counts as public.
LinkBase_prefixMatch(s, readACL, fault) ==
  IF fault # "none"
    THEN [s |-> s, link |-> <<>>, err |-> "Internal", resp |-> fault]
  ELSE IF \E i \in 1..Len(readACL) : readACL[i] \in { ".r:*", ".r:*.example.com" }
    THEN [s |-> s, link |-> << "endpoint/", s.container, "/" >>, err |-> NoErr, resp |-> "204"]
    ELSE [s |-> s, link |-> <<>>, err |-> "ErrNotSupported", resp |-> "204"]

\* LinkBase: the container's URL followed by "/" if an entry of the
\* container's read ACL is the public sentinel.  The URL is kept as its
\* pieces: the service endpoint, the container name, the final "/".
LinkBase(s, readACL, fault) ==
  IF fault # "none"
    THEN [s |-> s, link |-> <<>>, err |-> "Internal", resp |-> fault]
  ELSE IF \E i \in 1..Len(readACL) : readACL[i] = containerPublicACL
    THEN [s |-> s, link |-> << "endpoint/", s.container, "/" >>, err |-> NoErr, resp |-> "204"]
    ELSE [s |-> s, link |-> <<>>, err |-> "ErrNotSupported", resp |-> "204"]

\* The first required option the configuration map lacks (0: none).
MissingOpt(opts) ==
  LET miss == { i \in 1..Len(requiredOpts) : requiredOpts[i] \notin DOMAIN opts } IN
  IF miss = {} THEN 0 ELSE Min(miss)

\* New: the options are checked first, then the client authenticates
\* (authOK: the identity service accepts the credentials), then the object
\* storage client is built (clientOK: the region has an endpoint).
New(opts, authOK, clientOK) ==
  IF MissingOpt(opts) # 0
    THEN [s |-> NilStorage, err |-> "Invalid", msg |-> requiredOpts[MissingOpt(opts)],
          authCalls |-> 0]
  ELSE IF ~authOK
    THEN [s |-> NilStorage, err |-> "Permission", msg |-> "Could not authenticate",
          authCalls |-> 1]
  ELSE IF ~clientOK
    THEN [s |-> NilStorage, err |-> "Invalid",
          msg |-> "Could not create object storage client", authCalls |-> 1]
  ELSE [s |-> [client |-> "client", container |-> opts[openstackContainer]],
        err |-> NoErr, msg |-> "", authCalls |-> 1]

\* createContainer of the test sets the container's read ACL (to the public
\* sentinel there; any ACL an owner may set here).
createContainer(read) == read

\* ----------------------------------------------------------------- actions
\* One call at a time: a call starts when the caller holds no outcome, and
\* Return is the caller taking the outcome of the call.
Idle == last = NoResult

Return ==
  /\ ~Idle
  /\ last' = NoResult
  /\ UNCHANGED << adapter, store, acl, lastPut, hist >>

PutCall ==
  /\ Idle
  /\ \E ref \in Refs, contents \in Blobs, fault \in Faults :
      LET r == Put(adapter, store, ref, contents, fault) IN
      /\ adapter' = r.s
      /\ store' = r.store
      /\ lastPut' = IF r.err = NoErr
                      THEN [x \in DOMAIN lastPut \cup {ref} |->
                              IF x = ref THEN contents ELSE lastPut[x]]
                      ELSE lastPut
      /\ hist' = IF r.err = NoErr
                   THEN [hist EXCEPT ![ref] = IF ref \in DOMAIN store /\ store[ref] # contents
                                                THEN "overwritten" ELSE "put"]
                   ELSE hist
      /\ last' = [NoResult EXCEPT !.op = "Put", !.ref = ref, !.contents = contents,
                                  !.err = r.err, !.resp = r.resp]
      /\ UNCHANGED acl

DownloadCall ==
  /\ Idle
  /\ \E ref \in Refs, fault \in Faults :
      LET r == Download(adapter, store, ref, fault) IN
      /\ adapter' = r.s
      /\ last' = [NoResult EXCEPT !.op = "Download", !.ref = ref, !.contents = r.contents,
                                  !.err = r.err, !.resp = r.resp]
      /\ UNCHANGED << store, acl, lastPut, hist >>

DeleteCall ==
  /\ Idle
  /\ \E ref \in Refs, fault \in Faults :
      LET r == Delete(adapter, store, ref, fault) IN
      /\ adapter' = r.s
      /\ store' = r.store
      /\ lastPut' = IF r.err = NoErr
                      THEN [x \in DOMAIN lastPut \ {ref} |-> lastPut[x]]
                      ELSE lastPut
      /\ hist' = IF r.err = NoErr THEN [hist EXCEPT ![ref] = "deleted"] ELSE hist
      /\ last' = [NoResult EXCEPT !.op = "Delete", !.ref = ref, !.err = r.err,
                                  !.resp = r.resp]
      /\ UNCHANGED acl

ListCall ==
  /\ Idle
  /\ \E token \in Tokens, fault \in Faults :
      LET r == List(adapter, store, token, fault) IN
      /\ adapter' = r.s
      /\ last' = [NoResult EXCEPT !.op = "List", !.url = token, !.refs = r.refs,
                                  !.token = r.nextToken, !.err = r.err,
                                  !.fetches = r.fetches, !.calls = 1,
                                  !.resp = IF fault = "none" THEN "200" ELSE fault]
      /\ UNCHANGED << store, acl, lastPut, hist >>

GetAllRefsCall ==
  /\ Idle
  /\ \E perPage \in PerPages, maxCalls \in 0..MaxCalls, faultAt \in 0..MaxCalls :
      LET r == getAllRefs(adapter, store, perPage, maxCalls, faultAt) IN
      /\ adapter' = r.s
      /\ last' = [NoResult EXCEPT !.op = "getAllRefs", !.perPage = perPage,
                                  !.maxCalls = maxCalls, !.refs = r.allRefs,
                                  !.token = r.token, !.err = r.err,
                                  !.fetches = r.fetches, !.calls = r.calls,
                                  !.callCount = r.callCount]
      /\ UNCHANGED << store, acl, lastPut, hist >>

LinkBaseCall ==
  /\ Idle
  /\ adapter # NilStorage
  /\ \E fault \in Faults :
      LET r == LinkBase(adapter, acl, fault) IN
      /\ adapter' = r.s
      /\ last' = [NoResult EXCEPT !.op = "LinkBase", !.link = r.link, !.err = r.err,
                                  !.resp = r.resp]
      /\ UNCHANGED << store, acl, lastPut, hist >>

NewCall ==
  /\ Idle
  /\ adapter = NilStorage
  /\ \E K \in SUBSET Range(requiredOpts), authOK \in BOOLEAN, clientOK \in BOOLEAN :
      \E opts \in [K -> OptValues] :
        LET r == New(opts, authOK, clientOK) IN
        /\ adapter' = r.s
        /\ last' = [NoResult EXCEPT !.op = "New", !.opts = opts, !.authOK = authOK,
                                    !.clientOK = clientOK, !.err = r.err, !.msg = r.msg,
                                    !.authCalls = r.authCalls]
        /\ UNCHANGED << store, acl, lastPut, hist >>

CreateContainerCall ==
  /\ Idle
  /\ \E read \in SeqsUpTo(ACLEntries, MaxACL) :
      /\ acl' = createContainer(read)
      /\ last' = [NoResult EXCEPT !.op = "createContainer"]
      /\ UNCHANGED << adapter, store, lastPut, hist >>

Init ==
  /\ adapter = [client |-> "client", container |-> "v"]
  /\ store = <<>>
  /\ acl = <<containerPublicACL>>
  /\ lastPut = <<>>
  /\ hist = [r \in Refs |-> "never"]
  /\ last = NoResult

Next ==
  \/ PutCall
  \/ DownloadCall
  \/ DeleteCall
  \/ ListCall
  \/ GetAllRefsCall
  \/ LinkBaseCall
  \/ Return

Spec == Init /\ [][Next]_vars

\* Construction and the container's metadata: the adapter is not built yet.
InitAdmin ==
  /\ adapter = NilStorage
  /\ store = <<>>
  /\ acl = <<>>
  /\ lastPut = <<>>
  /\ hist = [r \in Refs |-> "never"]
  /\ last = NoResult

NextAdmin ==
  \/ NewCall
  \/ CreateContainerCall
  \/ LinkBaseCall
  \/ Return

SpecAdmin == InitAdmin /\ [][NextAdmin]_vars

\* ------------------------------------------------------------------ claims
Answered == last.resp \notin (Faults \ {"none"})

Names(refs) == { refs[i].Ref : i \in 1..Len(refs) }

NoDuplicates(refs) == \A i, j \in 1..Len(refs) : i # j => refs[i].Ref # refs[j].Ref

\* getAllRefs stopped because a list call returned the empty token.
EndedByEmptyToken ==
  last.op = "getAllRefs" /\ last.err = NoErr /\ last.calls >= 1 /\ last.token = EmptyToken

\* The page size in force: perPage, or the server's default for perPage 0.
PageSize(perPage) == IF perPage = 0 THEN ServerDefaultLimit ELSE perPage

CallsNeeded == Ceil(Cardinality(DOMAIN store), PageSize(last.perPage)) + 1

\* C1: a Download of r, after a successful Put(r, c) with no later
\* successful Put or Delete of r, that the service answers, succeeds and
\* returns exactly c, also when the Put replaced a different blob.
C1_PutThenDownload ==
  (last.op = "Download" /\ last.ref \in DOMAIN lastPut /\ Answered)
    => (last.err = NoErr /\ last.contents = lastPut[last.ref])

C1_Witness ==
  /\ last.op = "Download" /\ last.err = NoErr
  /\ hist[last.ref] = "overwritten"
  /\ last.contents = <<9, 7>>

\* C2: a Download the service answers with 404 returns no contents and
\* kind NotExist, so does a Download of a reference never Put that the
\* service answers; every other failure has kind IO, and NotExist is
\* returned for 404 only.
C2_DownloadMissing ==
  last.op = "Download" =>
    /\ (last.resp = "404" => last.err = "NotExist" /\ last.contents = NilBytes)
    /\ (hist[last.ref] = "never" /\ Answered => last.err = "NotExist")
    /\ (last.err # NoErr /\ last.resp # "404" => last.err = "IO")
    /\ (last.err = "NotExist" => last.resp = "404")

C2_Witness ==
  last.op = "Download" /\ hist[last.ref] = "never" /\ last.err = "NotExist"
    /\ DOMAIN store # {}

\* C3: a Download of r after a successful Put of r and then a successful
\* Delete of r, with no later Put of r, returns an error and no contents.
C3_PutDeleteDownload ==
  (last.op = "Download" /\ hist[last.ref] = "deleted")
    => (last.err # NoErr /\ last.contents = NilBytes)

C3_Witness ==
  last.op = "Download" /\ hist[last.ref] = "deleted" /\ last.err = "NotExist"

\* C4: for every page size, the references getAllRefs has collected from
\* the unmodified container are names held by the container, none twice,
\* and once a call returned the empty token they are exactly the
\* container's names, each once.
C4_ListingComplete ==
  (last.op = "getAllRefs" /\ last.err = NoErr) =>
    /\ NoDuplicates(last.refs)
    /\ Names(last.refs) \subseteq DOMAIN store
    /\ (EndedByEmptyToken =>
          /\ Names(last.refs) = DOMAIN store
          /\ Len(last.refs) = Cardinality(DOMAIN store))

C4_Witness ==
  /\ EndedByEmptyToken
  /\ last.perPage = 2
  /\ Cardinality(DOMAIN store) = 3
  /\ Len(last.refs) = 3

\* C5: iterating from the empty token over the unmodified container takes
\* exactly ceil(N/pageSize)+1 list calls: never more, the call that
\* returns the empty token is call number ceil(N/pageSize)+1, and the loop
\* ends that way whenever it is allowed that many calls.
C5_CallCount ==
  (last.op = "getAllRefs" /\ last.err = NoErr) =>
    /\ last.calls <= CallsNeeded
    /\ (EndedByEmptyToken => last.calls = CallsNeeded /\ last.callCount = CallsNeeded - 1)
    /\ (last.maxCalls >= CallsNeeded => EndedByEmptyToken)
    /\ (last.maxCalls < CallsNeeded => last.calls = last.maxCalls /\ ~EndedByEmptyToken)

C5_Witness ==
  /\ EndedByEmptyToken
  /\ last.perPage = 2
  /\ last.perPage < Cardinality(DOMAIN store)
  /\ last.calls = 3

\* C6: List("") on a container holding nothing, answered by the service,
\* succeeds with no items and the empty token.
C6_ListEmptyContainer ==
  (last.op = "List" /\ last.url = EmptyToken /\ DOMAIN store = {} /\ Answered)
    => (last.err = NoErr /\ last.refs = <<>> /\ last.token = EmptyToken)

C6_Witness ==
  /\ last.op = "List" /\ last.url = EmptyToken /\ DOMAIN store = {} /\ Answered
  /\ \E r \in Refs : hist[r] = "deleted"

\* C7: LinkBase returns the container's URL followed by "/" exactly when
\* an entry of the read ACL equals the sentinel; with readable metadata
\* and no such entry it fails with the unsupported error, and with
\* unreadable metadata it fails with kind Internal.
C7_LinkBase ==
  last.op = "LinkBase" =>
    LET public == \E i \in 1..Len(acl) : acl[i] = ".r:*" IN
    /\ (~Answered => last.err = "Internal" /\ last.link = <<>>)
    /\ (Answered /\ public =>
          last.err = NoErr /\ last.link = << "endpoint/", adapter.container, "/" >>)
    /\ (Answered /\ ~public => last.err = "ErrNotSupported" /\ last.link = <<>>)

C7_Witness ==
  /\ last.op = "LinkBase" /\ Answered
  /\ acl = << ".r:*.example.com", ".rlistings" >>
  /\ last.err = "ErrNotSupported"

\* C8: New fails with kind Invalid, before authenticating, when one of the
\* six required keys is absent; with all six it fails with kind Permission
\* when authentication fails and with kind Invalid when the object storage
\* client cannot be built; it returns an adapter, fully initialised, only
\* when all three steps succeed, and no adapter with an error.
C8_New ==
  last.op = "New" =>
    LET six == { "openstackRegion", "openstackContainer", "openstackAuthURL",
                 "privateOpenstackTenantName", "privateOpenstackUsername",
                 "privateOpenstackPassword" }
        complete == six \subseteq DOMAIN last.opts IN
    /\ (~complete => last.err = "Invalid" /\ last.authCalls = 0)
    /\ (complete /\ ~last.authOK => last.err = "Permission")
    /\ (complete /\ last.authOK /\ ~last.clientOK => last.err = "Invalid")
    /\ (complete /\ last.authOK /\ last.clientOK => last.err = NoErr)
    /\ (last.err # NoErr => adapter = NilStorage)
    /\ (last.err = NoErr =>
          /\ adapter.client # "nil"
          /\ adapter.container = last.opts["openstackContainer"])

C8_Witness ==
  /\ last.op = "New" /\ last.err = "Invalid" /\ last.authCalls = 0
  /\ DOMAIN last.opts = Range(requiredOpts) \ { openstackPassword }
  /\ last.authOK /\ last.clientOK

\* C9: every List call issues exactly one page request, for the first page
\* with the empty token and for the token's URL otherwise, and returns
\* that page's items only; the list calls of getAllRefs issue one each.
C9_OnePagePerCall ==
  /\ last.op = "List" =>
       /\ last.fetches = 1
       /\ Answered =>
            LET url == IF last.url = EmptyToken THEN << 0, 0 >> ELSE last.url
                page == SwiftPage(store, PageSize(url[1]), url[2]) IN
            /\ Len(last.refs) = Len(page)
            /\ \A i \in 1..Len(page) : last.refs[i].Ref = page[i].Name
  /\ last.op = "getAllRefs" => last.fetches = last.calls

C9_Witness ==
  /\ last.op = "List" /\ last.url = << 1, 1 >> /\ Answered
  /\ DOMAIN store = Refs
  /\ Len(last.refs) = 1 /\ last.refs[1].Ref = 2
  /\ last.fetches = 1

====
